---------------------------- MODULE Spec2Model ----------------------------
(***************************************************************************)
(* A model of the entry points of the symphony-periodic analysis code:     *)
(*   - analyses/rebuttal_experiments/resolution_random_points.ipynb        *)
(*     (optimize_coeffs, the resolution sweep, the plot and its legend),   *)
(*   - the temperature-ablation notebook (src/unnamed/part_000),           *)
(*   - the learning-rate sweep script (src/unnamed/part_002),              *)
(*   - sweep_scripts/tetris.sh.                                            *)
(* One behaviour is one run of one entry point; prog says which.           *)
(*                                                                         *)
(* Strings that the code formats and parses (the legend labels) are        *)
(* sequences of one-character strings.  Floating-point values produced by  *)
(* the external libraries (losses, gradients, coefficients) are modelled   *)
(* by their provenance: the number of updates that produced them.          *)
(***************************************************************************)
EXTENDS Integers, Sequences, FiniteSets, TLC

VARIABLES
    prog,                \* the entry point this run executes
    pc,                  \* position of the entry point's control
    \* ---- resolution_random_points.ipynb
    num_training_steps,  \* the num_training_steps argument of optimize_coeffs
    sweep_k,             \* position in the nested loops of the sweep cell
    plot_k,              \* position in the nested loops of the plot cell
    calls,               \* arguments of each optimize_coeffs call, in order
    step,                \* loop variable of optimize_coeffs
    coeffs, opt_state,   \* locals of optimize_coeffs
    update_log,          \* one record per train_step call: inputs and outputs
    training_dict,       \* insertion-ordered dict: sequence of [key, value]
    printed,             \* steps whose loss was printed
    results_df,          \* rows appended by the sweep cell
    axs,                 \* the three panels: sequences of plotted curves
    legend,              \* the legend entries, in display order
    \* ---- temperature ablation notebook
    fs,                  \* the file system: the directories that exist
    path_k,              \* position in the nested pit / fait loops
    generated_paths,     \* insertion-ordered dict (pit, fait) -> path
    all_generated_molecules, valid_molecules,
    ir,                  \* position of the loop over valid_molecules.items()
    all_results_df,
    \* ---- shell sweep scripts
    grid_k,              \* position in the nested hyperparameter loops
    launched,            \* training runs launched so far, in order
    running,             \* indices (into launched) of runs still executing
    exited               \* [run, status] of each run that has exited, in order

vars == <<prog, pc, num_training_steps, sweep_k, plot_k, calls, step, coeffs, opt_state,
          update_log, training_dict, printed, results_df, axs, legend,
          fs, path_k, generated_paths, all_generated_molecules,
          valid_molecules, ir, all_results_df,
          grid_k, launched, running, exited>>

resolution_vars == <<num_training_steps, sweep_k, plot_k, calls, step, coeffs,
                     opt_state, update_log, training_dict, printed,
                     results_df, axs, legend>>
temperature_vars == <<fs, path_k, generated_paths, all_generated_molecules,
                      valid_molecules, ir, all_results_df>>
script_vars == <<grid_k, launched, running, exited>>

----------------------------------------------------------------------------
(* Bounds of the model.                                                    *)

\* optimize_coeffs is explored for num_training_steps in 0..MaxSteps.
MaxSteps == 25
\* At most MaxDirs of the 25 templated molecule directories exist.
MaxDirs == 2
\* The molecule directories hold at most MaxMols molecules in total.
MaxMols == 1

----------------------------------------------------------------------------
(* Python helpers.                                                         *)

\* dict.keys() of an insertion-ordered dict
DictKeys(d) == [i \in 1..Len(d) |-> d[i].key]

DictHas(d, k) == \E i \in 1..Len(d) : d[i].key = k

DictGet(d, k) == d[CHOOSE i \in 1..Len(d) : d[i].key = k].value

\* d[k] = v : an existing key keeps its position, a new key goes last
DictSet(d, k, v) ==
    IF DictHas(d, k)
    THEN [i \in 1..Len(d) |-> IF d[i].key = k THEN [key |-> k, value |-> v]
                                               ELSE d[i]]
    ELSE Append(d, [key |-> k, value |-> v])

Digits == <<"0", "1", "2", "3", "4", "5", "6", "7", "8", "9">>

DigitChar(n) == Digits[n + 1]

IsDigit(c) == \E i \in 1..10 : Digits[i] = c

DigitVal(c) == (CHOOSE i \in 1..10 : Digits[i] = c) - 1

\* str(n) / f"{n}" of a non-negative int
RECURSIVE IntToStr(_)
IntToStr(n) ==
    IF n < 10 THEN <<DigitChar(n)>>
    ELSE Append(IntToStr(n \div 10), DigitChar(n % 10))

\* str.strip() for blanks
RECURSIVE Strip(_)
Strip(s) ==
    IF s = <<>> THEN s
    ELSE IF Head(s) = " " THEN Strip(Tail(s))
    ELSE IF s[Len(s)] = " " THEN Strip(SubSeq(s, 1, Len(s) - 1))
    ELSE s

RECURSIVE DigitsToInt(_)
DigitsToInt(s) ==
    IF s = <<>> THEN 0
    ELSE 10 * DigitsToInt(SubSeq(s, 1, Len(s) - 1)) + DigitVal(s[Len(s)])

\* int(s): surrounding blanks are ignored; anything but digits raises
\* ValueError, which is the result -1 here
PyInt(s) ==
    LET t == Strip(s) IN
    IF t # <<>> /\ \A i \in 1..Len(t) : IsDigit(t[i])
    THEN DigitsToInt(t)
    ELSE -1

\* s.replace(c, "") for a one-character c
StrRemove(s, c) == SelectSeq(s, LAMBDA x : x # c)

\* s.split(c) for a one-character c
RECURSIVE StrSplit(_, _)
StrSplit(s, c) ==
    IF \A i \in 1..Len(s) : s[i] # c THEN <<s>>
    ELSE LET p == CHOOSE i \in 1..Len(s) :
                     s[i] = c /\ \A j \in 1..(i - 1) : s[j] # c
         IN  <<SubSeq(s, 1, p - 1)>> \o StrSplit(SubSeq(s, p + 1, Len(s)), c)

\* sorted(xs, key=...): Python computes the key of every element once and
\* sorts stably by it; xs is here the sequence of [k |-> key, v |-> element].
RECURSIVE InsertByKey(_, _)
InsertByKey(sorted, x) ==
    IF sorted = <<>> THEN <<x>>
    ELSE IF sorted[Len(sorted)].k <= x.k THEN Append(sorted, x)
    ELSE Append(InsertByKey(SubSeq(sorted, 1, Len(sorted) - 1), x),
                sorted[Len(sorted)])

RECURSIVE SortedByKey(_)
SortedByKey(xs) ==
    IF xs = <<>> THEN <<>>
    ELSE InsertByKey(SortedByKey(SubSeq(xs, 1, Len(xs) - 1)), xs[Len(xs)])

SeqMax(s) == CHOOSE m \in {s[i] : i \in 1..Len(s)} :
                 \A i \in 1..Len(s) : s[i] <= m

----------------------------------------------------------------------------
(* resolution_random_points.ipynb                                          *)

res_alphas == <<9, 179, 359, 719>>
res_betas == <<10, 180, 360>>

\* the lmax and position_channels loops of the sweep cell
sweep_lmaxes == <<5>>
sweep_position_channels == <<2>>

\* e3nn.normal(irreps, rng, (position_channels, 1)): the initial coefficients
\* are the coefficients after zero updates; tx.init(coeffs) likewise.
InitialCoeffs == 0
InitialOptState == 0

\* train_step(coeffs, opt_state): the loss and gradient are evaluated at the
\* incoming coefficients, tx.update advances the optimizer state and
\* apply_updates the coefficients.
train_step_stale(c, o) ==
    [coeffs |-> c, opt_state |-> o + 1, loss_value |-> c, grad_norms |-> c]

train_step(c, o) ==
    [coeffs |-> c + 1, opt_state |-> o + 1, loss_value |-> c, grad_norms |-> c]

\* if step % 5000 == 0
PrintEvery == 5000
ShouldPrint(s) == s % PrintEvery = 0

\* if step % 10 == 0
EvalEvery == 10
ShouldRecord_offbyone(s) == (s + 1) % EvalEvery = 0

ShouldRecord(s) == s % EvalEvery = 0

\* the body of one iteration of "for step in range(num_training_steps)"
TrainingEntry(s, out) ==
    [coeffs |-> out.coeffs,
     loss_value |-> out.loss_value,
     grad_norms |-> out.grad_norms,
     \* rmse_of_samples(coeffs_to_distribution(coeffs, ..), .., fold_in(rng, step))
     mean_dist |-> [coeffs |-> out.coeffs, rng |-> s],
     std_dist |-> [coeffs |-> out.coeffs, rng |-> s]]

\* the four nested for loops of the sweep cell, in iteration order
SweepGrid ==
    LET nb == Len(res_betas)
        nl == Len(sweep_lmaxes)
        nc == Len(sweep_position_channels)
    IN  [k \in 1..(Len(res_alphas) * nb * nl * nc) |->
            [res_alpha |-> res_alphas[((k - 1) \div (nb * nl * nc)) + 1],
             res_beta |-> res_betas[(((k - 1) \div (nl * nc)) % nb) + 1],
             lmax |-> sweep_lmaxes[(((k - 1) \div nc) % nl) + 1],
             position_channels |-> sweep_position_channels[((k - 1) % nc) + 1]]]

\* the two nested for loops of the plot cell, in iteration order
PlotGrid ==
    LET nb == Len(res_betas)
    IN  [k \in 1..(Len(res_alphas) * nb) |->
            [res_alpha |-> res_alphas[((k - 1) \div nb) + 1],
             res_beta |-> res_betas[((k - 1) % nb) + 1]]]

allowed_res_alphas_and_betas ==
    <<<<9, 10>>, <<9, 180>>, <<179, 180>>, <<359, 180>>, <<719, 360>>>>

\* if (res_alpha, res_beta) not in allowed_res_alphas_and_betas: continue
IsAllowed(a, b) ==
    \E i \in 1..Len(allowed_res_alphas_and_betas) :
        allowed_res_alphas_and_betas[i] = <<a, b>>

\* get_color_value: the radicand (numerator, denominator) of the cube root
get_color_value(a, b) == <<a * b, SeqMax(res_alphas) * SeqMax(res_betas)>>

\* fr"$(r_\theta, r_\phi) = ({res_beta},{res_alpha})$"
CurveLabel(a, b) ==
    <<"$", "(", "r", "_", "\\", "t", "h", "e", "t", "a", ",", " ",
      "r", "_", "\\", "p", "h", "i", ")", " ", "=", " ", "(">>
    \o IntToStr(b) \o <<",">> \o IntToStr(a) \o <<")", "$">>

\* extract_resolution_from_label(args), args = (label, handle); the names
\* res_alpha and res_beta are the function's own (the label lists beta first)
extract_resolution_first_field(args) ==
    LET l1 == StrRemove(args[1], "$")
        l2 == StrRemove(l1, "(")
        l3 == StrRemove(l2, ")")
        parts == StrSplit(StrSplit(l3, "=")[2], ",")
    IN  PyInt(parts[1])

extract_resolution_from_label(args) ==
    LET l1 == StrRemove(args[1], "$")
        l2 == StrRemove(l1, "(")
        l3 == StrRemove(l2, ")")
        parts == StrSplit(StrSplit(l3, "=")[2], ",")
        res_alpha == PyInt(parts[1])
        res_beta == PyInt(parts[2])
    IN  IF res_alpha < 0 \/ res_beta < 0 THEN -1
        ELSE res_alpha * res_beta

\* optimize_coeffs is entered: lines 110-132
SweepCall ==
    /\ prog = "resolution" /\ pc = "sweep"
    /\ sweep_k <= Len(SweepGrid)
    /\ calls' = Append(calls,
                       [lmax |-> SweepGrid[sweep_k].lmax,
                        position_channels |-> SweepGrid[sweep_k].position_channels,
                        res_alpha |-> SweepGrid[sweep_k].res_alpha,
                        res_beta |-> SweepGrid[sweep_k].res_beta,
                        num_training_steps |-> num_training_steps])
    /\ coeffs' = InitialCoeffs
    /\ opt_state' = InitialOptState
    /\ update_log' = <<>>
    /\ training_dict' = <<>>
    /\ step' = 0
    /\ pc' = "train"
    /\ UNCHANGED <<prog, num_training_steps, sweep_k, plot_k, printed,
                   results_df, axs, legend>>
    /\ UNCHANGED temperature_vars
    /\ UNCHANGED script_vars

\* one iteration of "for step in range(num_training_steps)"; step is the
\* next value range() yields
TrainStep ==
    /\ prog = "resolution" /\ pc = "train"
    /\ step < num_training_steps
    /\ LET out == train_step(coeffs, opt_state) IN
        /\ coeffs' = out.coeffs
        /\ opt_state' = out.opt_state
        /\ update_log' = Append(update_log,
                                [coeffs_in |-> coeffs, opt_in |-> opt_state,
                                 coeffs_out |-> out.coeffs,
                                 opt_out |-> out.opt_state])
        /\ printed' = IF ShouldPrint(step)
                      THEN Append(printed, <<step, out.loss_value>>)
                      ELSE printed
        /\ training_dict' = IF ShouldRecord(step)
                            THEN DictSet(training_dict, step,
                                         TrainingEntry(step, out))
                            ELSE training_dict
    /\ step' = step + 1
    /\ UNCHANGED <<prog, pc, num_training_steps, sweep_k, plot_k, calls,
                   results_df, axs, legend>>
    /\ UNCHANGED temperature_vars
    /\ UNCHANGED script_vars

\* optimize_coeffs returns training_dict; the rest of the sweep body runs
SweepCollect ==
    /\ prog = "resolution" /\ pc = "train"
    /\ step = num_training_steps
    /\ LET keys == DictKeys(training_dict) IN
       IF keys = <<>>
       THEN \* list(training_dict.keys())[0]
            /\ pc' = "IndexError"
            /\ UNCHANGED <<results_df, sweep_k>>
       ELSE LET first_step == keys[1]
                last_step == keys[Len(keys)]
            IN  IF first_step # 0
                THEN /\ pc' = "AssertionError"
                     /\ UNCHANGED <<results_df, sweep_k>>
                ELSE /\ results_df' = Append(results_df,
                          [res_alpha |-> SweepGrid[sweep_k].res_alpha,
                           res_beta |-> SweepGrid[sweep_k].res_beta,
                           lmax |-> SweepGrid[sweep_k].lmax,
                           position_channels |->
                               SweepGrid[sweep_k].position_channels,
                           steps |-> keys,
                           loss |-> [i \in 1..Len(keys) |->
                                        training_dict[i].value.loss_value],
                           grad_norms |-> [i \in 1..Len(keys) |->
                                        training_dict[i].value.grad_norms],
                           coeffs |-> DictGet(training_dict, last_step).coeffs,
                           mean_dist |-> [i \in 1..Len(keys) |->
                                        training_dict[i].value.mean_dist],
                           std_dist |-> [i \in 1..Len(keys) |->
                                        training_dict[i].value.std_dist]])
                     /\ sweep_k' = sweep_k + 1
                     /\ pc' = IF sweep_k = Len(SweepGrid) THEN "plot"
                                                          ELSE "sweep"
    /\ UNCHANGED <<prog, num_training_steps, plot_k, calls, step, coeffs,
                   opt_state, update_log, training_dict, printed, axs, legend>>
    /\ UNCHANGED temperature_vars
    /\ UNCHANGED script_vars

\* one iteration of the plot cell's loops
PlotIter ==
    /\ prog = "resolution" /\ pc = "plot"
    /\ plot_k <= Len(PlotGrid)
    /\ LET a == PlotGrid[plot_k].res_alpha
           b == PlotGrid[plot_k].res_beta
           subset_df == SelectSeq(results_df,
                            LAMBDA r : r.res_alpha = a /\ r.res_beta = b)
           next_pc == IF plot_k = Len(PlotGrid) THEN "legend" ELSE "plot"
       IN  IF ~IsAllowed(a, b)
           THEN /\ axs' = axs
                /\ plot_k' = plot_k + 1
                /\ pc' = next_pc
           ELSE IF subset_df = <<>>
           THEN \* subset_df["steps"].iloc[0]
                /\ pc' = "IndexError"
                /\ UNCHANGED <<axs, plot_k>>
           ELSE LET row == subset_df[1]
                    curve(y) == [label |-> CurveLabel(a, b),
                                 color |-> get_color_value(a, b),
                                 x |-> row.steps,
                                 y |-> y,
                                 run |-> <<row.res_alpha, row.res_beta>>]
                IN  /\ axs' = <<Append(axs[1], curve(row.loss)),
                                Append(axs[2], curve(row.grad_norms)),
                                Append(axs[3], curve(row.mean_dist))>>
                    /\ plot_k' = plot_k + 1
                    /\ pc' = next_pc
    /\ UNCHANGED <<prog, num_training_steps, sweep_k, calls, step, coeffs,
                   opt_state, update_log, training_dict, printed, results_df,
                   legend>>
    /\ UNCHANGED temperature_vars
    /\ UNCHANGED script_vars

\* "Sort legend by resolution": lines 272-274
LegendSort ==
    /\ prog = "resolution" /\ pc = "legend"
    /\ LET handles == axs[1]
           zipped == [i \in 1..Len(handles) |->
                         <<handles[i].label, handles[i]>>]
           keyed == [i \in 1..Len(zipped) |->
                        [k |-> extract_resolution_from_label(zipped[i]),
                         v |-> zipped[i]]]
       IN  IF \E i \in 1..Len(keyed) : keyed[i].k < 0
           THEN pc' = "ValueError" /\ legend' = legend
           ELSE IF keyed = <<>>
           THEN \* labels, handles = zip(*[])
                pc' = "ValueError" /\ legend' = legend
           ELSE /\ legend' = [i \in 1..Len(keyed) |->
                                 [label |-> SortedByKey(keyed)[i].v[1],
                                  handle |-> SortedByKey(keyed)[i].v[2]]]
                /\ pc' = "done"
    /\ UNCHANGED <<prog, num_training_steps, sweep_k, plot_k, calls, step,
                   coeffs, opt_state, update_log, training_dict, printed,
                   results_df, axs>>
    /\ UNCHANGED temperature_vars
    /\ UNCHANGED script_vars

ResolutionNext ==
    SweepCall \/ TrainStep \/ SweepCollect \/ PlotIter \/ LegendSort

----------------------------------------------------------------------------
(* The temperature-ablation notebook.                                      *)

pits == <<"0.01", "0.1", "1.0", "10.0", "100.0">>
faits == <<"0.01", "0.1", "1.0", "10.0", "100.0">>

\* the template string, cut at its replacement fields
template ==
    <<"/Users/ameyad/Documents/spherical-harmonic-net/analyses/analysed_workdirs/qm9_bessel_embedding_attempt6_edm_splits_iclr2024_submission/e3schnet_and_nequip/interactions=3/l=5/position_channels=2/channels=64/fait=",
      "{fait}", "/pit=", "{pit}",
      "/step=9930000_res_alpha=359_res_beta=180/molecules">>

\* template.format(pit=pit, fait=fait)
Format_swapped(t, pit, fait) ==
    [i \in 1..Len(t) |-> IF t[i] = "{fait}" THEN pit
                         ELSE IF t[i] = "{pit}" THEN fait
                         ELSE t[i]]

Format(t, pit, fait) ==
    [i \in 1..Len(t) |-> IF t[i] = "{fait}" THEN fait
                         ELSE IF t[i] = "{pit}" THEN pit
                         ELSE t[i]]

\* the two nested for loops of the paths cell, in iteration order
PathGrid ==
    LET nf == Len(faits)
    IN  [k \in 1..(Len(pits) * nf) |->
            [pit |-> pits[((k - 1) \div nf) + 1],
             fait |-> faits[((k - 1) % nf) + 1]]]

\* os.path.exists(path)
PathExists(path) == path \in fs

\* get_all_valid_molecules(molecules)
get_all_valid_molecules(molecules) == SelectSeq(molecules, LAMBDA m : m.valid)

\* compute_validity(all, valid): the fraction (numerator, denominator)
compute_validity(molecules, valid) == <<Len(valid), Len(molecules)>>

\* compute_uniqueness(valid): distinct structures over all valid ones
compute_uniqueness(valid) ==
    <<Cardinality({valid[i].smiles : i \in 1..Len(valid)}), Len(valid)>>

\* if len(molecules) == 0: continue
SkipsModel(molecules) == Len(molecules) = 0

\* the sequences over S of length at most n
RECURSIVE SeqsUpTo(_, _)
SeqsUpTo(S, n) ==
    IF n = 0 THEN {<<>>}
    ELSE LET shorter == SeqsUpTo(S, n - 1)
         IN  shorter \cup {Append(q, x) : q \in shorter, x \in S}

\* the molecules a directory may hold: a structure and whether it is valid
MolKinds ==
    {[smiles |-> "C", valid |-> TRUE],
     [smiles |-> "CC", valid |-> TRUE],
     [smiles |-> "C", valid |-> FALSE]}

\* what reading n directories may return: n molecule lists holding at most
\* m molecules in total
RECURSIVE DirectoryContents(_, _)
DirectoryContents(n, m) ==
    IF n = 0 THEN {<<>>}
    ELSE UNION {{<<q>> \o t : t \in DirectoryContents(n - 1, m - Len(q))} :
                   q \in SeqsUpTo(MolKinds, m)}

\* one iteration of the loops of the paths cell
PathIter ==
    /\ prog = "temperature" /\ pc = "paths"
    /\ path_k <= Len(PathGrid)
    /\ LET pit == PathGrid[path_k].pit
           fait == PathGrid[path_k].fait
           path == Format(template, pit, fait)
       IN  generated_paths' = IF ~PathExists(path)
                              THEN generated_paths
                              ELSE DictSet(generated_paths, <<pit, fait>>, path)
    /\ path_k' = path_k + 1
    /\ pc' = IF path_k = Len(PathGrid) THEN "molecules" ELSE "paths"
    /\ UNCHANGED <<prog, fs, all_generated_molecules, valid_molecules, ir,
                   all_results_df>>
    /\ UNCHANGED resolution_vars
    /\ UNCHANGED script_vars

\* the cell building all_generated_molecules and valid_molecules;
\* get_all_molecules(path) reads the molecules stored under each directory
LoadMolecules ==
    /\ prog = "temperature" /\ pc = "molecules"
    /\ \E read \in DirectoryContents(Len(generated_paths), MaxMols) :
       LET all_ == [i \in 1..Len(generated_paths) |->
                       [key |-> generated_paths[i].key,
                        value |-> read[i]]]
       IN  /\ all_generated_molecules' = all_
           /\ valid_molecules' =
                  [i \in 1..Len(all_) |->
                      [key |-> all_[i].key,
                       value |-> get_all_valid_molecules(all_[i].value)]]
    /\ pc' = IF generated_paths = <<>> THEN "done" ELSE "results"
    /\ UNCHANGED <<prog, fs, path_k, generated_paths, ir, all_results_df>>
    /\ UNCHANGED resolution_vars
    /\ UNCHANGED script_vars

\* one iteration of "for model, molecules in valid_molecules.items()"
ResultsIter ==
    /\ prog = "temperature" /\ pc = "results"
    /\ ir <= Len(valid_molecules)
    /\ LET model == valid_molecules[ir].key
           molecules == valid_molecules[ir].value
       IN  IF SkipsModel(molecules)
           THEN all_results_df' = all_results_df
           ELSE all_results_df' = Append(all_results_df,
                    [pit |-> model[1],
                     fait |-> model[2],
                     validity |-> compute_validity(
                         DictGet(all_generated_molecules, model), molecules),
                     uniqueness |-> compute_uniqueness(molecules)])
    /\ ir' = ir + 1
    /\ pc' = IF ir = Len(valid_molecules) THEN "done" ELSE "results"
    /\ UNCHANGED <<prog, fs, path_k, generated_paths, all_generated_molecules,
                   valid_molecules>>
    /\ UNCHANGED resolution_vars
    /\ UNCHANGED script_vars

TemperatureNext == PathIter \/ LoadMolecules \/ ResultsIter

----------------------------------------------------------------------------
(* The shell sweep scripts.  A grid point is the tuple of the loop          *)
(* variables, outermost first.                                             *)

\* the iterations of four nested for loops, in iteration order
Grid4(s1, s2, s3, s4) ==
    LET n2 == Len(s2)
        n3 == Len(s3)
        n4 == Len(s4)
    IN  [k \in 1..(Len(s1) * n2 * n3 * n4) |->
            <<s1[((k - 1) \div (n2 * n3 * n4)) + 1],
              s2[(((k - 1) \div (n3 * n4)) % n2) + 1],
              s3[(((k - 1) \div n4) % n3) + 1],
              s4[((k - 1) % n4) + 1]>>]

\* a plain "break": only the innermost loop is left
AfterBreak_innermost(grid, k, n) ==
    LET later == {j \in (k + 1)..Len(grid) :
                     SubSeq(grid[j], 1, 3) # SubSeq(grid[k], 1, 3)}
    IN  IF later = {} THEN 0
        ELSE CHOOSE j \in later : \A i \in later : j <= i

\* "break n" inside the innermost of four loops, at grid point k: the
\* innermost min(n, 4) loops are left and the next enclosing loop goes on
\* to its next value; 0 when no loop is left to go on
AfterBreak(grid, k, n) ==
    LET keep == IF n >= 4 THEN 0 ELSE 4 - n
        later == {j \in (k + 1)..Len(grid) :
                     /\ SubSeq(grid[j], 1, keep) # SubSeq(grid[k], 1, keep)
                     /\ keep > 0}
    IN  IF later = {} THEN 0
        ELSE CHOOSE j \in later : \A i \in later : j <= i

\* ---- learning-rate sweep (src/unnamed/part_002)

LrSchedules_reversed == <<"sgdr", "constant">>

LrSchedules == <<"constant", "sgdr">>
LrLs == <<2>>
LrCs == <<32>>
LrIs == <<4>>

LrGrid == Grid4(LrSchedules, LrLs, LrCs, LrIs)

\* CUDA_VISIBLE_DEVICES=6
LrDevice == 6

\* || break 10
LrBreak == 10

LrRun(config, g) ==
    [config |-> config,
     learning_rate_schedule |-> g[1],
     max_ell |-> g[2],
     num_channels |-> g[3],
     num_interactions |-> g[4],
     device |-> LrDevice]

\* line 15: the mace run is started in the foreground
LrLaunchMace ==
    /\ prog = "learning_rates" /\ pc = "mace"
    /\ launched' = Append(launched, LrRun("mace", LrGrid[grid_k]))
    /\ running' = running \cup {Len(launched) + 1}
    /\ pc' = "wait_mace"
    /\ UNCHANGED <<prog, grid_k, exited>>
    /\ UNCHANGED resolution_vars
    /\ UNCHANGED temperature_vars

\* line 16: the e3schnet run is started in the foreground
LrLaunchE3schnet ==
    /\ prog = "learning_rates" /\ pc = "e3schnet"
    /\ launched' = Append(launched, LrRun("e3schnet", LrGrid[grid_k]))
    /\ running' = running \cup {Len(launched) + 1}
    /\ pc' = "wait_e3schnet"
    /\ UNCHANGED <<prog, grid_k, exited>>
    /\ UNCHANGED resolution_vars
    /\ UNCHANGED temperature_vars

\* the foreground run exits with a status; on failure "break 10" runs,
\* otherwise the script goes on to its next command
LrExit ==
    /\ prog = "learning_rates" /\ pc \in {"wait_mace", "wait_e3schnet"}
    /\ \E r \in running, status \in {0, 1} :
        /\ running' = running \ {r}
        /\ exited' = Append(exited, [run |-> r, status |-> status])
        /\ IF status # 0
           THEN LET k == AfterBreak(LrGrid, grid_k, LrBreak) IN
                /\ grid_k' = IF k = 0 THEN grid_k ELSE k
                /\ pc' = IF k = 0 THEN "done" ELSE "mace"
           ELSE IF pc = "wait_mace"
           THEN /\ pc' = "e3schnet"
                /\ grid_k' = grid_k
           ELSE /\ grid_k' = IF grid_k = Len(LrGrid) THEN grid_k
                                                     ELSE grid_k + 1
                /\ pc' = IF grid_k = Len(LrGrid) THEN "done" ELSE "mace"
    /\ UNCHANGED <<prog, launched>>
    /\ UNCHANGED resolution_vars
    /\ UNCHANGED temperature_vars

LearningRatesNext == LrLaunchMace \/ LrLaunchE3schnet \/ LrExit

\* ---- sweep_scripts/tetris.sh

TetModels == <<"nequip">>
TetLs == <<1, 2, 3, 4, 5>>
TetCs == <<64>>
TetIs == <<2>>

TetGrid == Grid4(TetModels, TetLs, TetCs, TetIs)

\* CUDA_VISIBLE_DEVICES="$((l-1))"
TetDevice_ell(l) == l

TetDevice(l) == l - 1

\* line 16: the run is started in the background ("&") and the loops go on
TetLaunch ==
    /\ prog = "tetris" /\ pc = "launch"
    /\ LET g == TetGrid[grid_k] IN
       launched' = Append(launched,
                          [config |-> g[1],
                           max_ell |-> g[2],
                           num_channels |-> g[3],
                           num_interactions |-> g[4],
                           device |-> TetDevice(g[2])])
    /\ running' = running \cup {Len(launched) + 1}
    /\ grid_k' = IF grid_k = Len(TetGrid) THEN grid_k ELSE grid_k + 1
    /\ pc' = IF grid_k = Len(TetGrid) THEN "done" ELSE "launch"
    /\ UNCHANGED <<prog, exited>>
    /\ UNCHANGED resolution_vars
    /\ UNCHANGED temperature_vars

\* a background run exits, at any time after its launch
TetExit ==
    /\ prog = "tetris"
    /\ \E r \in running, status \in {0, 1} :
        /\ running' = running \ {r}
        /\ exited' = Append(exited, [run |-> r, status |-> status])
    /\ UNCHANGED <<prog, pc, grid_k, launched>>
    /\ UNCHANGED resolution_vars
    /\ UNCHANGED temperature_vars

TetrisNext == TetLaunch \/ TetExit

----------------------------------------------------------------------------
(* The inputs of a run and the specification.                              *)

\* the subsets of S with at most k elements
RECURSIVE SubsetsUpTo(_, _)
SubsetsUpTo(S, k) ==
    IF k = 0 THEN {{}}
    ELSE LET smaller == SubsetsUpTo(S, k - 1)
         IN  smaller \cup {T \cup {x} : T \in smaller, x \in S}

TemplatedPaths ==
    {Format(template, pits[i], faits[j]) : i \in 1..Len(pits),
                                           j \in 1..Len(faits)}

FileSystems == SubsetsUpTo(TemplatedPaths, MaxDirs)

EntryPoints == {"resolution", "temperature", "learning_rates", "tetris"}

Init ==
    /\ prog \in EntryPoints
    /\ pc = CASE prog = "resolution" -> "sweep"
              [] prog = "temperature" -> "paths"
              [] prog = "learning_rates" -> "mace"
              [] prog = "tetris" -> "launch"
    /\ num_training_steps \in IF prog = "resolution" THEN 0..MaxSteps ELSE {0}
    /\ sweep_k = 1
    /\ plot_k = 1
    /\ calls = <<>>
    /\ step = 0
    /\ coeffs = InitialCoeffs
    /\ opt_state = InitialOptState
    /\ update_log = <<>>
    /\ training_dict = <<>>
    /\ printed = <<>>
    /\ results_df = <<>>
    /\ axs = <<<<>>, <<>>, <<>>>>
    /\ legend = <<>>
    /\ fs \in IF prog = "temperature" THEN FileSystems ELSE {{}}
    /\ path_k = 1
    /\ generated_paths = <<>>
    /\ all_generated_molecules = <<>>
    /\ valid_molecules = <<>>
    /\ ir = 1
    /\ all_results_df = <<>>
    /\ grid_k = 1
    /\ launched = <<>>
    /\ running = {}
    /\ exited = <<>>

Next == ResolutionNext \/ TemperatureNext \/ LearningRatesNext \/ TetrisNext

Spec == Init /\ [][Next]_vars

\* optimize_coeffs is sequential code: an iteration that can run does run
FairSpec == Spec /\ WF_vars(TrainStep)

----------------------------------------------------------------------------
(* Properties.                                                             *)

\* the steps s with 0 <= s < n and s mod 10 = 0, in increasing order
PeriodicSteps(n) == [i \in 1..((n + 9) \div 10) |-> 10 * (i - 1)]

\* C1: optimize_coeffs records periodically: after the iterations for steps
\* 0..step-1 the keys of training_dict are exactly the multiples of 10 below
\* step, in increasing order, so the dictionary it returns for
\* num_training_steps = N has the keys 0, 10, 20, .. below N (ceil(N/10) of
\* them) and the sweep stores exactly those as the row's steps.
C1_PeriodicRecording ==
    prog = "resolution" =>
        /\ pc = "train" => DictKeys(training_dict) = PeriodicSteps(step)
        /\ (pc = "train" /\ step = num_training_steps) =>
               /\ DictKeys(training_dict) = PeriodicSteps(num_training_steps)
               /\ Len(training_dict) = (num_training_steps + 9) \div 10
        /\ \A i \in 1..Len(results_df) :
               results_df[i].steps = PeriodicSteps(num_training_steps)

C1_Witness ==
    /\ prog = "resolution" /\ pc = "train"
    /\ step = num_training_steps /\ num_training_steps = 25
    /\ DictKeys(training_dict) = <<0, 10, 20>>

\* C2: the coefficients and the optimizer state are initialised once, each
\* loop iteration applies exactly one update to the coefficients and
\* optimizer state the previous update produced, the loop terminates, and
\* at the return exactly num_training_steps updates have been applied.
C2_OneUpdatePerIteration ==
    /\ [](prog = "resolution" /\ pc = "train" =>
            /\ Len(update_log) = step
            /\ step <= num_training_steps
            /\ coeffs = InitialCoeffs + step
            /\ opt_state = InitialOptState + step
            /\ \A i \in 1..Len(update_log) :
                 /\ update_log[i].coeffs_in =
                        (IF i = 1 THEN InitialCoeffs
                                  ELSE update_log[i - 1].coeffs_out)
                 /\ update_log[i].opt_in =
                        (IF i = 1 THEN InitialOptState
                                  ELSE update_log[i - 1].opt_out)
                 /\ update_log[i].coeffs_out = update_log[i].coeffs_in + 1
                 /\ update_log[i].opt_out = update_log[i].opt_in + 1)
    /\ (prog = "resolution" /\ pc = "train")
           ~> (pc = "train" /\ step = num_training_steps
                 /\ Len(update_log) = num_training_steps)

C2_Witness ==
    /\ prog = "resolution" /\ pc = "train"
    /\ step = num_training_steps /\ num_training_steps = 12
    /\ Len(update_log) = 12 /\ coeffs = InitialCoeffs + 12
    /\ Len(calls) = 2

\* C3: the sweep's "assert first_step == 0" never fails: whenever
\* optimize_coeffs returns for num_training_steps >= 1, the first key of
\* training_dict is step 0, and every row the sweep stored starts at step 0.
C3_FirstStepZero ==
    prog = "resolution" =>
        /\ pc # "AssertionError"
        /\ (pc = "train" /\ step = num_training_steps
              /\ num_training_steps >= 1) =>
               (training_dict # <<>> /\ training_dict[1].key = 0)
        /\ \A i \in 1..Len(results_df) : results_df[i].steps[1] = 0

C3_Witness ==
    /\ prog = "resolution" /\ pc = "plot"
    /\ Len(results_df) = Len(res_alphas) * Len(res_betas)
    /\ num_training_steps = 1

\* the (schedule, config) of each launched run, in launch order
LaunchOrder == [i \in 1..Len(launched) |->
                   <<launched[i].learning_rate_schedule, launched[i].config>>]

\* C4: the learning-rate sweep runs its commands in the foreground: a run
\* starts only after every earlier run has exited, at most one run executes
\* at any time, and when every run exits with status 0 the script ends
\* having launched exactly (constant, mace), (constant, e3schnet),
\* (sgdr, mace), (sgdr, e3schnet), in this order.
C4_LrSweepOrder ==
    prog = "learning_rates" =>
        /\ Cardinality(running) <= 1
        /\ running \subseteq {Len(launched)}
        /\ Len(exited) = Len(launched) - Cardinality(running)
        /\ \A i \in 1..Len(exited) : exited[i].run = i
        /\ (pc = "done" /\ \A i \in 1..Len(exited) : exited[i].status = 0) =>
               LaunchOrder = <<<<"constant", "mace">>,
                               <<"constant", "e3schnet">>,
                               <<"sgdr", "mace">>,
                               <<"sgdr", "e3schnet">>>>

C4_Witness ==
    /\ prog = "learning_rates" /\ pc = "done"
    /\ Len(launched) = 4 /\ Len(exited) = 4
    /\ \A i \in 1..Len(exited) : exited[i].status = 0

\* C5: the tetris sweep launches exactly five runs, one per max_ell in
\* 1..5; the run with max_ell = l is given CUDA device l - 1, so the
\* devices are 0..4 and no two launched runs share a device.
C5_TetrisDevices ==
    prog = "tetris" =>
        /\ \A i \in 1..Len(launched) :
               launched[i].device = launched[i].max_ell - 1
        /\ \A i, j \in 1..Len(launched) :
               i # j => launched[i].device # launched[j].device
        /\ pc = "done" =>
               /\ Len(launched) = 5
               /\ {launched[i].max_ell : i \in 1..Len(launched)} = 1..5
               /\ {launched[i].device : i \in 1..Len(launched)} = 0..4

C5_Witness ==
    /\ prog = "tetris" /\ pc = "done"
    /\ Len(launched) = 5
    /\ Cardinality(running) = 5

\* C6: across the optimize_coeffs calls of the sweep cell, position_channels
\* and lmax each take more than one value.
C6_SweepVariesChannelsAndLmax ==
    (prog = "resolution" /\ pc = "plot") =>
        /\ Cardinality({calls[i].position_channels : i \in 1..Len(calls)}) > 1
        /\ Cardinality({calls[i].lmax : i \in 1..Len(calls)}) > 1

\* C7: once the plot cell's loops are over, every (res_alpha, res_beta)
\* pair the sweep ran has a curve on each of the three panels.
C7_EveryPairPlotted ==
    (prog = "resolution" /\ pc \in {"legend", "done"}) =>
        \A i \in 1..Len(results_df), panel \in 1..3 :
            \E c \in 1..Len(axs[panel]) :
                axs[panel][c].run =
                    <<results_df[i].res_alpha, results_df[i].res_beta>>

\* the curves and the legend entries as sets
Curves(panel) == {axs[panel][c] : c \in 1..Len(axs[panel])}

\* C8: for every plotted curve, extract_resolution_from_label applied to
\* the curve's label returns res_alpha * res_beta of the run it draws, and
\* the legend holds the curves of the first panel ordered by non-decreasing
\* res_alpha * res_beta.
C8_LegendSortedByResolution ==
    prog = "resolution" =>
        /\ \A panel \in 1..3 : \A c \in Curves(panel) :
               extract_resolution_from_label(<<c.label, c>>)
                   = c.run[1] * c.run[2]
        /\ pc # "ValueError"
        /\ pc = "done" =>
               /\ Len(legend) = Len(axs[1])
               /\ {legend[i].handle : i \in 1..Len(legend)} = Curves(1)
               /\ \A i \in 1..Len(legend) :
                      legend[i].label = legend[i].handle.label
               /\ \A i, j \in 1..Len(legend) :
                      i < j => legend[i].handle.run[1] * legend[i].handle.run[2]
                            <= legend[j].handle.run[1] * legend[j].handle.run[2]

C8_Witness ==
    /\ prog = "resolution" /\ pc = "done"
    /\ Len(legend) = 5
    /\ legend[1].handle.run = <<9, 10>>
    /\ legend[1].label = CurveLabel(9, 10)
    /\ legend[5].handle.run = <<719, 360>>

\* the directory the template names for a pit and a fait, written out
ExpectedPath(pit, fait) ==
    <<template[1], fait, "/pit=", pit, template[5]>>

\* C9: generated_paths has the key (pit, fait) exactly when the directory
\* templated for that pit and fait exists, for all 25 combinations; the
\* stored path has fait in its fait= segment and pit in its pit= segment;
\* a missing directory is skipped without an error.
C9_GeneratedPaths ==
    prog = "temperature" =>
        /\ pc \in {"paths", "molecules", "results", "done"}
        /\ \A k \in 1..Len(PathGrid) :
               (pc # "paths" \/ k < path_k) =>
                   (DictHas(generated_paths,
                            <<PathGrid[k].pit, PathGrid[k].fait>>)
                    <=> ExpectedPath(PathGrid[k].pit, PathGrid[k].fait) \in fs)
        /\ \A i \in 1..Len(generated_paths) :
               LET key == generated_paths[i].key IN
               /\ generated_paths[i].value = ExpectedPath(key[1], key[2])
               /\ \E p \in 1..Len(pits), f \in 1..Len(faits) :
                      key = <<pits[p], faits[f]>>
        /\ \A i, j \in 1..Len(generated_paths) :
               i # j => generated_paths[i].key # generated_paths[j].key
        /\ pc # "paths" =>
               /\ Len(generated_paths) = Cardinality(fs)
               /\ \A pit, fait \in {"0.01", "0.1", "1.0", "10.0", "100.0"} :
                      DictHas(generated_paths, <<pit, fait>>)
                          <=> ExpectedPath(pit, fait) \in fs

C9_Witness ==
    /\ prog = "temperature" /\ pc = "molecules"
    /\ Len(generated_paths) = 2
    /\ generated_paths[1].key = <<"0.01", "10.0">>
    /\ generated_paths[2].key = <<"100.0", "0.1">>
    /\ fs = {ExpectedPath("0.01", "10.0"), ExpectedPath("100.0", "0.1")}

\* C10: when the results cell is over, every (pit, fait) key of
\* generated_paths has exactly one row of all_results_df, carrying that pit,
\* that fait and the model's validity and uniqueness.
C10_RowPerModel ==
    (prog = "temperature" /\ pc = "done") =>
        \A i \in 1..Len(generated_paths) :
            LET key == generated_paths[i].key
                rows == {r \in 1..Len(all_results_df) :
                            /\ all_results_df[r].pit = key[1]
                            /\ all_results_df[r].fait = key[2]}
            IN  /\ Cardinality(rows) = 1
                /\ \A r \in rows :
                     /\ all_results_df[r].validity =
                            compute_validity(
                                DictGet(all_generated_molecules, key),
                                DictGet(valid_molecules, key))
                     /\ all_results_df[r].uniqueness =
                            compute_uniqueness(DictGet(valid_molecules, key))

\* C11: in the learning-rate sweep, a run that exits with a non-zero status
\* is the last run launched: "break 10" leaves all four loops, so the script
\* is over with nothing executing, a failed mace run is followed neither by
\* the e3schnet run of its schedule nor by any run of the later schedule.
C11_FailureStopsSweep ==
    prog = "learning_rates" =>
        \A i \in 1..Len(exited) :
            exited[i].status # 0 =>
                /\ i = Len(exited)
                /\ exited[i].run = Len(launched)
                /\ running = {}
                /\ pc = "done"
                /\ launched[exited[i].run].config = "mace" =>
                       \A j \in 1..Len(launched) :
                           ~(/\ launched[j].config = "e3schnet"
                             /\ launched[j].learning_rate_schedule =
                                  launched[exited[i].run].learning_rate_schedule)
                /\ launched[exited[i].run].learning_rate_schedule = "constant"
                       => \A j \in 1..Len(launched) :
                              launched[j].learning_rate_schedule # "sgdr"

\* the mace run of the first schedule fails: nothing else is launched
C11_Witness ==
    /\ prog = "learning_rates" /\ pc = "done"
    /\ LaunchOrder = <<<<"constant", "mace">>>>
    /\ exited = <<[run |-> 1, status |-> 1]>>
    /\ running = {}

=============================================================================
